---- MODULE Spec2Model ----
(***************************************************************************)
(* Model of the DJ availability checker: the booking write protocol        *)
(* (gig_booking_manager.py, GigBookingManager.run) and the pure cell-value *)
(* functions it relies on.  Cell values and calendar titles are strings;   *)
(* the Python string operations are modelled character by character.       *)
(***************************************************************************)
EXTENDS Integers, Sequences, FiniteSets, TLC

(***************************************************************************)
(* Python string primitives                                                *)
(***************************************************************************)
LowerAlpha == "abcdefghijklmnopqrstuvwxyz"
UpperAlpha == "ABCDEFGHIJKLMNOPQRSTUVWXYZ"
Digits == "0123456789"

Ch(s, i) == SubSeq(s, i, i)

IndexIn(c, alphabet) ==
    IF \E i \in 1..Len(alphabet) : Ch(alphabet, i) = c
    THEN CHOOSE i \in 1..Len(alphabet) : Ch(alphabet, i) = c
    ELSE 0

UpperCh(c) ==
    IF IndexIn(c, LowerAlpha) > 0 THEN Ch(UpperAlpha, IndexIn(c, LowerAlpha)) ELSE c

LowerCh(c) ==
    IF IndexIn(c, UpperAlpha) > 0 THEN Ch(LowerAlpha, IndexIn(c, UpperAlpha)) ELSE c

RECURSIVE Upper(_)
Upper(s) == IF s = "" THEN "" ELSE UpperCh(Ch(s, 1)) \o Upper(SubSeq(s, 2, Len(s)))

RECURSIVE Lower(_)
Lower(s) == IF s = "" THEN "" ELSE LowerCh(Ch(s, 1)) \o Lower(SubSeq(s, 2, Len(s)))

RECURSIVE LStrip(_)
LStrip(s) == IF s # "" /\ Ch(s, 1) = " " THEN LStrip(SubSeq(s, 2, Len(s))) ELSE s

RECURSIVE RStrip(_)
RStrip(s) == IF s # "" /\ Ch(s, Len(s)) = " " THEN RStrip(SubSeq(s, 1, Len(s) - 1)) ELSE s

Strip(s) == RStrip(LStrip(s))

StartsWith(s, p) == Len(s) >= Len(p) /\ SubSeq(s, 1, Len(p)) = p

Contains(s, sub) ==
    \E i \in 1..(Len(s) + 1) : i + Len(sub) - 1 <= Len(s) /\ SubSeq(s, i, i + Len(sub) - 1) = sub

\* str.replace(old, new): every non-overlapping occurrence, left to right
RECURSIVE Replace(_, _, _)
Replace(s, old, new) ==
    IF s = "" THEN ""
    ELSE IF StartsWith(s, old)
         THEN new \o Replace(SubSeq(s, Len(old) + 1, Len(s)), old, new)
         ELSE Ch(s, 1) \o Replace(SubSeq(s, 2, Len(s)), old, new)

\* str.split(sep) for a one-character separator: a sequence of strings
RECURSIVE SplitFrom(_, _, _)
SplitFrom(s, sep, acc) ==
    IF s = "" THEN <<acc>>
    ELSE IF Ch(s, 1) = sep
         THEN <<acc>> \o SplitFrom(SubSeq(s, 2, Len(s)), sep, "")
         ELSE SplitFrom(SubSeq(s, 2, Len(s)), sep, acc \o Ch(s, 1))

Split(s, sep) == SplitFrom(s, sep, "")

\* sep.join(parts)
RECURSIVE Join(_, _)
Join(parts, sep) ==
    IF parts = <<>> THEN ""
    ELSE IF Len(parts) = 1 THEN parts[1]
         ELSE parts[1] \o sep \o Join(Tail(parts), sep)

MapStrip(parts) == [i \in 1..Len(parts) |-> Strip(parts[i])]

IsDigits(s) == s # "" /\ \A i \in 1..Len(s) : IndexIn(Ch(s, i), Digits) > 0

RECURSIVE DigitsVal(_)
DigitsVal(s) ==
    IF s = "" THEN 0
    ELSE 10 * DigitsVal(SubSeq(s, 1, Len(s) - 1)) + (IndexIn(Ch(s, Len(s)), Digits) - 1)

\* int(s): surrounding whitespace and one sign are accepted; anything else
\* raises ValueError (ok = FALSE)
ParseInt(s) ==
    LET t == Strip(s)
        signed == t # "" /\ Ch(t, 1) \in {"-", "+"}
        body == IF signed THEN SubSeq(t, 2, Len(t)) ELSE t
    IN IF IsDigits(body)
       THEN [ok |-> TRUE,
             val |-> IF signed /\ Ch(t, 1) = "-" THEN 0 - DigitsVal(body) ELSE DigitsVal(body)]
       ELSE [ok |-> FALSE, val |-> 0]

RECURSIVE NatToStr(_)
NatToStr(n) ==
    IF n < 10 THEN Ch(Digits, n + 1)
    ELSE NatToStr(n \div 10) \o Ch(Digits, (n % 10) + 1)

\* f"{n}"
IntToStr(n) == IF n < 0 THEN "-" \o NatToStr(0 - n) ELSE NatToStr(n)

(***************************************************************************)
(* Cell-value functions of gig_booking_manager.py                          *)
(***************************************************************************)
\* [p for p in parts if p.upper() == "AAG"] (aag = TRUE) and its complement
RECURSIVE SelectParts(_, _)
SelectParts(parts, aag) ==
    IF parts = <<>> THEN <<>>
    ELSE (IF (Upper(Head(parts)) = "AAG") = aag THEN <<Head(parts)>> ELSE <<>>)
         \o SelectParts(Tail(parts), aag)

\* variant: the AAG markers are not carried over
increment_tba_dropping_aag(current_value) ==
    IF Strip(current_value) = "" THEN "BOOKED"
    ELSE LET parts == MapStrip(Split(current_value, ","))
             booked_parts == SelectParts(parts, FALSE)
             bp == Upper(booked_parts[1])
             n == ParseInt(Replace(bp, "BOOKED X ", ""))
         IN IF booked_parts = <<>> THEN "BOOKED"
            ELSE IF bp = "BOOKED" THEN "BOOKED x 2"
            ELSE IF StartsWith(bp, "BOOKED X ") /\ n.ok
                 THEN "BOOKED x " \o IntToStr(n.val + 1)
                 ELSE "BOOKED x 2"

increment_tba(current_value) ==
    IF Strip(current_value) = "" THEN "BOOKED"
    ELSE LET parts == MapStrip(Split(current_value, ","))
             aag_parts == SelectParts(parts, TRUE)
             booked_parts == SelectParts(parts, FALSE)
             bp == Upper(booked_parts[1])
             n == ParseInt(Replace(bp, "BOOKED X ", ""))
             new_booked ==
                 IF Len(booked_parts) = 1
                 THEN IF bp = "BOOKED" THEN "BOOKED x 2"
                      ELSE IF StartsWith(bp, "BOOKED X ")
                           THEN IF n.ok THEN "BOOKED x " \o IntToStr(n.val + 1)
                                ELSE "BOOKED x 2"
                           ELSE "BOOKED x 2"
                 ELSE booked_parts[1]
         IN IF booked_parts = <<>>
            THEN "BOOKED, " \o Join(aag_parts, ", ")
            ELSE IF aag_parts # <<>>
                 THEN new_booked \o ", " \o Join(aag_parts, ", ")
                 ELSE new_booked

count_booked_events(cell_value) ==
    IF Strip(cell_value) = "" THEN 0
    ELSE LET value_upper == Strip(Upper(cell_value))
             n == ParseInt(Replace(value_upper, "BOOKED X ", ""))
         IN IF value_upper = "BOOKED" THEN 1
            ELSE IF StartsWith(value_upper, "BOOKED X ")
                 THEN IF n.ok THEN n.val ELSE 0
                 ELSE 0

\* variant: the cell is set to a plain BOOKED whatever it held
increment_booked_plain(current_value) == "BOOKED"

\* variant: BOOKED x N keeps its N
increment_booked_same_count(current_value) ==
    IF Strip(current_value) = "" THEN "BOOKED"
    ELSE LET value_upper == Strip(Upper(current_value))
             n == ParseInt(Replace(value_upper, "BOOKED X ", ""))
         IN IF value_upper = "BOOKED" THEN "BOOKED x 2"
            ELSE IF StartsWith(value_upper, "BOOKED X ")
                 THEN IF n.ok THEN "BOOKED x " \o IntToStr(n.val)
                      ELSE "BOOKED x 2"
                 ELSE current_value

increment_booked(current_value) ==
    IF Strip(current_value) = "" THEN "BOOKED"
    ELSE LET value_upper == Strip(Upper(current_value))
             n == ParseInt(Replace(value_upper, "BOOKED X ", ""))
         IN IF value_upper = "BOOKED" THEN "BOOKED x 2"
            ELSE IF StartsWith(value_upper, "BOOKED X ")
                 THEN IF n.ok THEN "BOOKED x " \o IntToStr(n.val + 1)
                      ELSE "BOOKED x 2"
                 ELSE current_value


(***************************************************************************)
(* Configuration registry (dj_core)                                        *)
(***************************************************************************)
DJ_NAMES == <<"Henry", "Woody", "Paul", "Stefano", "Felipe", "Stephanie">>
DJs == {DJ_NAMES[i] : i \in 1..Len(DJ_NAMES)}

\* COLUMN_MAPS: 1-indexed column of every name, per year
COLUMN_MAPS ==
    [y \in {2025, 2026, 2027} |->
        CASE y = 2025 -> [Date |-> 1, Henry |-> 4, Woody |-> 5, Paul |-> 6, Stefano |-> 7,
                          Felipe |-> 8, TBA |-> 9, Stephanie |-> 11]
          [] y = 2026 -> [Date |-> 1, Henry |-> 4, Woody |-> 5, Paul |-> 6, Stefano |-> 7,
                          Felipe |-> 8, TBA |-> 9, Stephanie |-> 11, AAG |-> 12]
          [] y = 2027 -> [Date |-> 1, Henry |-> 4, Woody |-> 5, Paul |-> 6, Stefano |-> 7,
                          Stephanie |-> 8, TBA |-> 9, AAG |-> 10, Felipe |-> 12]]

HasColumnMap(year) == year \in DOMAIN COLUMN_MAPS

\* BACKUP_ELIGIBLE_DJS.get(year, BACKUP_ELIGIBLE_DJS[2026])
BACKUP_ELIGIBLE_DJS(year) == DJ_NAMES

DJ_INITIALS ==
    [Henry |-> "HK", Woody |-> "WM", Paul |-> "PB", Stefano |-> "SB", Felipe |-> "FS",
     Stephanie |-> "SD"]

get_dj_initials(dj_name) == IF dj_name \in DOMAIN DJ_INITIALS THEN DJ_INITIALS[dj_name] ELSE "UP"

is_paid_backup(dj_name) == dj_name \in {"Stefano", "Felipe", "Stephanie"}

\* KNOWN_CELL_VALUES: the closed set of recognised status words (lower case)
KnownWords ==
    {"out", "booked", "backup", "maxed", "ok to backup", "ok", "last", "reserved",
     "stanford", "dad"}

KNOWN_CELL_VALUES(v) ==
    \/ v \in KnownWords
    \/ /\ StartsWith(v, "booked x ")
       /\ LET n == ParseInt(SubSeq(v, Len("booked x ") + 1, Len(v))) IN n.ok /\ n.val > 0

\* date_obj.weekday() is 0 (Monday) .. 6 (Sunday)
is_weekend(weekday) == weekday >= 5

\* One clause of a TBA value, as the analyzer counts it
TbaEntryCount(entry) ==
    LET entry_lower == Lower(entry)
        pieces == Split(entry_lower, "x")
        n == ParseInt(Strip(pieces[2]))
    IN IF Contains(entry_lower, "booked")
       THEN IF Contains(entry_lower, "x")
            THEN IF n.ok THEN n.val ELSE 1
            ELSE 1
       ELSE IF Contains(entry_lower, "aag") THEN 1 ELSE 0

RECURSIVE SumTbaEntries(_)
SumTbaEntries(entries) ==
    IF entries = <<>> THEN 0
    ELSE TbaEntryCount(Head(entries)) + SumTbaEntries(Tail(entries))

\* parse_tba_value: number of bookings a TBA cell stands for
parse_tba_value(tba_value) ==
    IF Contains(Lower(tba_value), "booked") \/ Contains(Lower(tba_value), "aag")
    THEN SumTbaEntries(MapStrip(Split(tba_value, ",")))
    ELSE 0

(***************************************************************************)
(* Rule engine (dj_core.py)                                                *)
(***************************************************************************)
\* variant: no year has the backup-only default
FelipeGatedYears_none == {}

\* the sheet names in which Felipe's cells default to backup only
FelipeGatedYears == {"2026", "2027"}

\* variant: the two flags of the Ok To Backup verdict swapped
check_dj_availability_flags_swapped(dj_name, cell_value, weekday, is_bold, year) ==
    LET value == Strip(cell_value)
        value_lower == Lower(value)
        is_weekend_day == weekday >= 5
    IN IF dj_name = "Henry" /\ ~is_weekend_day /\ value = "" THEN <<FALSE, TRUE>>
       ELSE IF dj_name = "Henry" /\ ~is_weekend_day /\ value_lower = "out" THEN <<FALSE, FALSE>>
       ELSE IF dj_name = "Stephanie" /\ year = "2026" /\ value = "" THEN <<FALSE, FALSE>>
       ELSE IF dj_name = "Stephanie" /\ year = "2027" /\ ~is_weekend_day /\ value = ""
            THEN <<FALSE, FALSE>>
       ELSE IF dj_name = "Stephanie" /\ year = "2027" /\ ~is_weekend_day /\ value_lower = "out"
            THEN <<FALSE, FALSE>>
       ELSE IF value_lower = "booked" \/ value_lower = "backup" THEN <<FALSE, FALSE>>
       ELSE IF value_lower = "reserved" THEN <<FALSE, FALSE>>
       ELSE IF dj_name = "Felipe" /\ year \in FelipeGatedYears
            THEN IF value = "" THEN <<FALSE, TRUE>>
                 ELSE IF value_lower = "ok" THEN <<TRUE, TRUE>>
                 ELSE IF value_lower = "dad" \/ value_lower = "ok to backup" THEN <<FALSE, TRUE>>
                 ELSE IF value_lower = "out" \/ value_lower = "maxed" THEN <<FALSE, FALSE>>
                 ELSE <<FALSE, TRUE>>
       ELSE IF value = ""
            THEN IF dj_name = "Stefano" THEN <<FALSE, FALSE>> ELSE <<TRUE, TRUE>>
       ELSE IF value_lower = "out" \/ value_lower = "maxed"
            THEN IF dj_name = "Woody" /\ is_weekend_day /\ ~is_bold THEN <<FALSE, TRUE>>
                 ELSE <<FALSE, FALSE>>
       ELSE IF value_lower = "ok to backup" THEN <<TRUE, FALSE>>
       ELSE IF value_lower = "ok" THEN <<TRUE, TRUE>>
       ELSE IF dj_name = "Felipe" /\ value_lower = "dad" THEN <<FALSE, TRUE>>
       ELSE IF dj_name = "Stefano" /\ value_lower = "ok" THEN <<TRUE, TRUE>>
       ELSE IF value_lower = "last" THEN <<TRUE, TRUE>>
       ELSE <<FALSE, FALSE>>

\* check_dj_availability: <<can_be_booked, can_be_backup>>; year is the sheet
\* name, a string
check_dj_availability(dj_name, cell_value, weekday, is_bold, year) ==
    LET value == Strip(cell_value)
        value_lower == Lower(value)
        is_weekend_day == weekday >= 5
    IN IF dj_name = "Henry" /\ ~is_weekend_day /\ value = "" THEN <<FALSE, TRUE>>
       ELSE IF dj_name = "Henry" /\ ~is_weekend_day /\ value_lower = "out" THEN <<FALSE, FALSE>>
       ELSE IF dj_name = "Stephanie" /\ year = "2026" /\ value = "" THEN <<FALSE, FALSE>>
       ELSE IF dj_name = "Stephanie" /\ year = "2027" /\ ~is_weekend_day /\ value = ""
            THEN <<FALSE, FALSE>>
       ELSE IF dj_name = "Stephanie" /\ year = "2027" /\ ~is_weekend_day /\ value_lower = "out"
            THEN <<FALSE, FALSE>>
       ELSE IF value_lower = "booked" \/ value_lower = "backup" THEN <<FALSE, FALSE>>
       ELSE IF value_lower = "reserved" THEN <<FALSE, FALSE>>
       ELSE IF dj_name = "Felipe" /\ year \in FelipeGatedYears
            THEN IF value = "" THEN <<FALSE, TRUE>>
                 ELSE IF value_lower = "ok" THEN <<TRUE, TRUE>>
                 ELSE IF value_lower = "dad" \/ value_lower = "ok to backup" THEN <<FALSE, TRUE>>
                 ELSE IF value_lower = "out" \/ value_lower = "maxed" THEN <<FALSE, FALSE>>
                 ELSE <<FALSE, TRUE>>
       ELSE IF value = ""
            THEN IF dj_name = "Stefano" THEN <<FALSE, FALSE>> ELSE <<TRUE, TRUE>>
       ELSE IF value_lower = "out" \/ value_lower = "maxed"
            THEN IF dj_name = "Woody" /\ is_weekend_day /\ ~is_bold THEN <<FALSE, TRUE>>
                 ELSE <<FALSE, FALSE>>
       ELSE IF value_lower = "ok to backup" THEN <<FALSE, TRUE>>
       ELSE IF value_lower = "ok" THEN <<TRUE, TRUE>>
       ELSE IF dj_name = "Felipe" /\ value_lower = "dad" THEN <<FALSE, TRUE>>
       ELSE IF dj_name = "Stefano" /\ value_lower = "ok" THEN <<TRUE, TRUE>>
       ELSE IF value_lower = "last" THEN <<TRUE, TRUE>>
       ELSE <<FALSE, FALSE>>

\* the columns analyze_availability walks, in the order of the column maps
ANALYZED_COLUMNS == <<"Henry", "Woody", "Paul", "Stefano", "Felipe", "TBA", "Stephanie", "AAG">>

\* value.replace(" (BOLD)", "")
PlainText(value) == Replace(value, " (BOLD)", "")

\* first pass: the AAG column holds a reservation
AagReserved(selected_data) ==
    /\ "AAG" \in DOMAIN selected_data
    /\ Contains(Lower(PlainText(selected_data["AAG"])), "reserved")

\* first pass: TBA bookings of one column
TbaBookingsOf(name, cell) ==
    LET value == PlainText(cell)
        value_lower == Lower(value)
    IN IF /\ name = "TBA"
          /\ (Contains(value_lower, "booked") \/ Contains(value_lower, "aag"))
       THEN SumTbaEntries(MapStrip(Split(value, ",")))
       ELSE 0

\* first pass: what one column adds to booked_count
BookedCountOf(name, cell) ==
    LET value == PlainText(cell)
        value_lower == Lower(value)
    IN IF name = "AAG" /\ Contains(value_lower, "reserved") THEN 0
       ELSE IF name = "Stephanie" /\ Contains(value_lower, "reserved") THEN 1
       ELSE TbaBookingsOf(name, cell)
            + (IF value_lower = "booked" \/ Contains(value_lower, "aag") THEN 1 ELSE 0)

\* first pass: tba_bookings over the columns of the row
RECURSIVE SumTbaBookings(_, _)
SumTbaBookings(selected_data, names) ==
    IF names = <<>> THEN 0
    ELSE (IF Head(names) \in DOMAIN selected_data
          THEN TbaBookingsOf(Head(names), selected_data[Head(names)]) ELSE 0)
         + SumTbaBookings(selected_data, Tail(names))

\* first pass: booked_count over the columns of the row
RECURSIVE SumBookedCount(_, _)
SumBookedCount(selected_data, names) ==
    IF names = <<>> THEN 0
    ELSE (IF Head(names) \in DOMAIN selected_data
          THEN BookedCountOf(Head(names), selected_data[Head(names)]) ELSE 0)
         + SumBookedCount(selected_data, Tail(names))

\* variant: Stephanie's column is judged like the others
JudgedColumns_with_stephanie(selected_data) ==
    SelectSeq(ANALYZED_COLUMNS,
              LAMBDA n : n \in DOMAIN selected_data /\ n \notin {"TBA", "AAG"})

\* second pass: the columns judged as DJs
JudgedColumns(selected_data) ==
    SelectSeq(ANALYZED_COLUMNS,
              LAMBDA n : n \in DOMAIN selected_data /\ n \notin {"TBA", "AAG", "Stephanie"})

\* second pass: the verdict on one DJ column, <<FALSE, FALSE>> for the cells
\* that are not judged
VerdictOf(selected_data, name, weekday, year) ==
    LET cell == selected_data[name]
        is_bold == Contains(cell, "(BOLD)")
        value == PlainText(cell)
        value_lower == Lower(value)
    IN IF value_lower = "backup" \/ value_lower = "booked" THEN <<FALSE, FALSE>>
       ELSE check_dj_availability(name, value, weekday, is_bold, year)

\* the spot arithmetic at the end of analyze_availability
AvailableSpots(n_booking, n_backup, tba_bookings, aag_reserved, backup_count) ==
    LET after_tba == IF tba_bookings > 0
                     THEN (IF n_booking - tba_bookings > 0 THEN n_booking - tba_bookings ELSE 0)
                     ELSE n_booking
        after_aag == IF aag_reserved
                     THEN (IF after_tba - 1 > 0 THEN after_tba - 1 ELSE 0)
                     ELSE after_tba
    IN IF backup_count = 0 /\ n_backup = 0 THEN 0 ELSE after_aag

\* analyze_availability: year is the sheet name, a string
analyze_availability(selected_data, weekday, year) ==
    LET judged == JudgedColumns(selected_data)
        available_for_booking ==
            SelectSeq(judged, LAMBDA n : VerdictOf(selected_data, n, weekday, year)[1])
        available_for_backup ==
            SelectSeq(judged, LAMBDA n : VerdictOf(selected_data, n, weekday, year)[2])
        backup_count ==
            Len(SelectSeq(judged, LAMBDA n : Lower(PlainText(selected_data[n])) = "backup"))
        tba_bookings == SumTbaBookings(selected_data, ANALYZED_COLUMNS)
        aag_reserved == AagReserved(selected_data)
    IN [booked_count |-> SumBookedCount(selected_data, ANALYZED_COLUMNS),
        available_spots |-> AvailableSpots(Len(available_for_booking), Len(available_for_backup),
                                           tba_bookings, aag_reserved, backup_count),
        available_booking |-> available_for_booking,
        available_backup |-> available_for_backup,
        tba_bookings |-> tba_bookings,
        backup_count |-> backup_count,
        aag_reserved |-> aag_reserved]

(***************************************************************************)
(* Backup rules of the write protocol (gig_booking_manager.py)             *)
(***************************************************************************)
can_backup(dj_name, cell_value, is_bold, weekday, year) ==
    LET value == Upper(Strip(cell_value))
        weekend == is_weekend(weekday)
    IN IF value # "" /\ ~KNOWN_CELL_VALUES(Lower(value)) THEN FALSE
       ELSE IF value \in {"BOOKED", "BACKUP", "MAXED", "RESERVED"} THEN FALSE
       ELSE IF value \in {"STANFORD", "LAST"} THEN TRUE
       ELSE CASE dj_name = "Henry" -> value # "OUT"
              [] dj_name = "Woody" -> IF value = "OUT" THEN weekend /\ ~is_bold ELSE TRUE
              [] dj_name = "Paul" -> value # "OUT"
              [] dj_name = "Stefano" -> value = ""
              [] dj_name = "Felipe" ->
                    IF year >= 2026 THEN value \in {"", "OK", "DAD", "OK TO BACKUP"}
                    ELSE value # "OUT"
              [] dj_name = "Stephanie" ->
                    IF year = 2026 THEN FALSE
                    ELSE IF year >= 2027
                         THEN IF value \in {"OUT", "RESERVED"} THEN FALSE
                              ELSE weekend /\ value = ""
                         ELSE FALSE
              [] OTHER -> FALSE

\* the note returned next to the verdict
can_backup_note(dj_name, cell_value) ==
    IF dj_name = "Stefano" /\ Upper(Strip(cell_value)) = "" THEN "check with Stefano" ELSE ""

get_backup_title(dj_name) ==
    IF is_paid_backup(dj_name) THEN "[" \o get_dj_initials(dj_name) \o "] PAID BACKUP DJ"
    ELSE "[" \o get_dj_initials(dj_name) \o "] BACKUP DJ"

\* row_data.get(name, "")
RowGet(row_data, name) == IF name \in DOMAIN row_data THEN row_data[name] ELSE ""

BlankCount(row_data, names) ==
    Cardinality({d \in names : Upper(Strip(RowGet(row_data, d))) = ""})

calculate_spots_remaining(row_data, year, weekday) ==
    LET col_map == IF HasColumnMap(year) THEN COLUMN_MAPS[year] ELSE COLUMN_MAPS[2026]
        base == BlankCount(row_data, {"Henry", "Woody", "Paul"})
        felipe_val == Upper(Strip(RowGet(row_data, "Felipe")))
        felipe == IF year >= 2026 THEN (IF felipe_val = "OK" THEN 1 ELSE 0)
                  ELSE (IF felipe_val = "" THEN 1 ELSE 0)
        steph == IF /\ year >= 2027
                    /\ "Stephanie" \in DOMAIN row_data
                    /\ Upper(Strip(RowGet(row_data, "Stephanie"))) = ""
                    /\ weekday >= 5
                 THEN 1 ELSE 0
        tba_count == parse_tba_value(RowGet(row_data, "TBA"))
        aag == IF /\ "AAG" \in DOMAIN col_map
                  /\ "AAG" \in DOMAIN row_data
                  /\ Upper(Strip(RowGet(row_data, "AAG"))) = "RESERVED"
               THEN 1 ELSE 0
        available_djs == base + felipe + steph - tba_count - aag
    IN IF available_djs > 0 THEN available_djs ELSE 0

\* variant: only the paid backups are looked at
check_existing_backup_paid_only(row_data) ==
    LET hits == {i \in 4..Len(DJ_NAMES) : Upper(Strip(RowGet(row_data, DJ_NAMES[i]))) = "BACKUP"}
    IN IF hits = {} THEN ""
       ELSE DJ_NAMES[CHOOSE i \in hits : \A j \in hits : i <= j]

\* first DJ, in the fixed order, whose cell is BACKUP; "" when there is none
check_existing_backup(row_data) ==
    LET hits == {i \in 1..Len(DJ_NAMES) : Upper(Strip(RowGet(row_data, DJ_NAMES[i]))) = "BACKUP"}
    IN IF hits = {} THEN ""
       ELSE DJ_NAMES[CHOOSE i \in hits : \A j \in hits : i <= j]

(***************************************************************************)
(* Booking write protocol: state                                           *)
(***************************************************************************)
\* Bounds of the model
MaxRuns == 2
NumRuns == 2
NoMapYear == 2028

Runs == 1..NumRuns
SerialRuns == {1}

CLIENT_DISPLAY == "Ann and Bob"

VARIABLES
    booking_date,   \* the date every booking of the model is for: [year, weekday]
    row_exists,     \* the date has a row in the year's sheet
    row,            \* the cells of that row, by column name
    bold_cells,     \* the columns of the row whose text is bold
    calendar,       \* titles of the calendar events on the date
    mgr,            \* per run: position and locals of GigBookingManager.run / main
    runs_started,   \* number of invocations so far
    probe           \* input and result of the pure function under check

vars == <<booking_date, row_exists, row, bold_cells, calendar, mgr, runs_started, probe>>

ColNames(year) == DOMAIN COLUMN_MAPS[year] \ {"Date"}

BlankRow(year) == [c \in ColNames(year) |-> ""]

\* a dict with no keys (row_data = {})
EmptyDict == [c \in {} |-> ""]

\* d[key] = value on a dict
DictSet(d, key, value) == [c \in (DOMAIN d) \cup {key} |-> IF c = key THEN value ELSE d[c]]

ColumnNameAt(year, col_num) ==
    IF \E c \in ColNames(year) : COLUMN_MAPS[year][c] = col_num
    THEN CHOOSE c \in ColNames(year) : COLUMN_MAPS[year][c] = col_num
    ELSE ""

\* ROW_FORMULA_TEMPLATES, as the values the formulas display; iso = weekday($A,2)
FormulaValue(col_letter, iso) ==
    CASE col_letter = "E" -> IF iso > 5 THEN "OUT" ELSE ""
      [] col_letter = "G" -> IF iso < 6 \/ iso = 7 THEN "OUT" ELSE ""
      [] col_letter = "H" -> IF iso < 6 THEN "OUT" ELSE ""
      [] OTHER -> ""

\* the row SheetsClient.create_date_row leaves behind, as get_row_data reads it
create_date_row(year, weekday) ==
    LET iso == weekday + 1
        e == ColumnNameAt(year, 5)
        g == ColumnNameAt(year, 7)
        h == ColumnNameAt(year, 8)
    IN [c \in ColNames(year) |->
          IF c = e THEN FormulaValue("E", iso)
          ELSE IF c = g THEN FormulaValue("G", iso)
          ELSE IF c = h THEN FormulaValue("H", iso)
          ELSE ""]

\* check_calendar_conflicts: the titles that contain the bracketed initials;
\* a missing tool or a timeout is caught and gives the empty list
RECURSIVE TitlesWith(_, _)
TitlesWith(titles, initials_bracket) ==
    IF titles = <<>> THEN <<>>
    ELSE (IF Contains(Head(titles), initials_bracket) THEN <<Head(titles)>> ELSE <<>>)
         \o TitlesWith(Tail(titles), initials_bracket)

LookupOutcomes == {"ok", "FileNotFoundError", "TimeoutExpired"}

check_calendar_conflicts(titles, initials_bracket, outcome) ==
    IF outcome = "ok" THEN TitlesWith(titles, initials_bracket) ELSE <<>>

\* parse_clean_format / parse_fm_format: the fields run() uses
ParseBooking(dj_short, year, has_times) ==
    [dj_short_name |-> dj_short,
     dj_initials_bracket |-> "[" \o get_dj_initials(dj_short) \o "]",
     year |-> year,
     has_times |-> has_times,
     is_unassigned |-> dj_short \in {"Unassigned", "Unknown"}]

\* calculate_event_times(booking): TRUE when both cal_start and cal_end are set
calculate_event_times(booking) == booking.has_times

PrimaryTitle(booking) == booking.dj_initials_bracket \o " " \o CLIENT_DISPLAY

Effect(op, target, value) == [op |-> op, target |-> target, value |-> value]

IdleRun ==
    [pc |-> "idle", dry_run |-> FALSE,
     booking |-> ParseBooking("Unassigned", NoMapYear, FALSE),
     row_num |-> "none", row_data |-> EmptyDict, allow_multiple |-> FALSE,
     matrix_count |-> 0, cal_conflicts |-> <<>>, candidates |-> <<>>,
     existing_backup |-> "", spots |-> 0, backup_dj |-> "",
     effects |-> <<>>, warnings |-> 0, result |-> "none", exit_code |-> -1,
     lookup |-> "none", approved |-> FALSE, declined |-> FALSE, chosen_backup |-> "",
     start_exists |-> FALSE, start_row |-> EmptyDict, start_calendar |-> <<>>,
     overwrote |-> FALSE]

(***************************************************************************)
(* Initial states: a sheet row typed by hand (or no row yet) and a calendar *)
(***************************************************************************)
InitYears == {2026}
InitWeekdays == {5}
InitPaulCells == {"", "BOOKED", "BOOKED x 2", "OUT"}
InitWoodyCells == {"", "OUT", "BACKUP"}
InitTBACells == {"BOOKED", "BOOKED x 2, AAG"}
InitCalendars ==
    {<<>>, <<"[PB] Cat and Dan">>, <<"[PB] Cat and Dan", "[PB] Eve and Fay">>,
     <<"[WM] Gus and Hal">>}

\* the DJs and pseudo-DJs a booking of the model is assigned to
BookingDJs == {"Paul", "Unassigned"}

InitRow(year, paul, woody, tba) ==
    [c \in ColNames(year) |->
        CASE c = "Paul" -> paul
          [] c = "Woody" -> woody
          [] c = "TBA" -> tba
          [] c \in {"Henry", "Stefano", "Felipe"} -> "OUT"
          [] OTHER -> ""]

Init ==
    /\ booking_date \in [year : InitYears, weekday : InitWeekdays]
    /\ row_exists \in BOOLEAN
    /\ IF row_exists
       THEN /\ \E paul \in InitPaulCells, woody \in InitWoodyCells, tba \in InitTBACells :
                  row = InitRow(booking_date.year, paul, woody, tba)
            /\ bold_cells \in {{}, {"Woody"}}
            /\ bold_cells = {"Woody"} => row["Woody"] = "OUT"
       ELSE /\ row = BlankRow(booking_date.year)
            /\ bold_cells = {}
    /\ calendar \in InitCalendars
    /\ mgr = [r \in Runs |-> IdleRun]
    /\ runs_started = 0
    /\ probe = [fn |-> "none", arg |-> "", out |-> ""]

(***************************************************************************)
(* GigBookingManager.run, one action per step                              *)
(***************************************************************************)
Terminal == {"done", "halted", "error"}

SetRun(r, rec) == mgr' = [mgr EXCEPT ![r] = rec]

\* return False from run(); main() then exits 0
Halted(rec, dialog) ==
    [rec EXCEPT !.pc = "halted", !.result = "False", !.exit_code = 0,
                !.warnings = @ + (IF dialog /\ ~rec.dry_run THEN 1 ELSE 0)]

\* variant: the exception is swallowed and the run reported as a success
Raised_swallowed(rec) ==
    [rec EXCEPT !.pc = "done", !.result = "True", !.exit_code = 0]

\* an exception leaves run(); main() reports it and exits 1
Raised(rec) ==
    [rec EXCEPT !.pc = "error", !.result = "exception", !.exit_code = 1,
                !.warnings = @ + (IF rec.dry_run THEN 0 ELSE 1)]

\* main() builds the manager; run() parses the booking and looks up the column map
Start(r) ==
    /\ mgr[r].pc \in {"idle"} \cup Terminal
    /\ runs_started < MaxRuns
    /\ \E dj \in BookingDJs, year \in {booking_date.year, NoMapYear},
          has_times \in BOOLEAN, dry \in BOOLEAN :
         LET rec == [IdleRun EXCEPT !.dry_run = dry,
                                    !.booking = ParseBooking(dj, year, has_times),
                                    !.start_exists = row_exists,
                                    !.start_row = row,
                                    !.start_calendar = calendar,
                                    !.overwrote = mgr[r].overwrote]
         IN IF ~HasColumnMap(year)
            THEN SetRun(r, Halted(rec, TRUE))
            ELSE SetRun(r, [rec EXCEPT !.pc = "find_row"])
    /\ runs_started' = runs_started + 1
    /\ UNCHANGED <<booking_date, row_exists, row, bold_cells, calendar, probe>>

\* Step 3: find the date row, creating it when it is missing
FindDateRow(r) ==
    /\ mgr[r].pc = "find_row"
    /\ IF row_exists
       THEN /\ SetRun(r, [mgr[r] EXCEPT !.pc = "read_row", !.row_num = "found"])
            /\ UNCHANGED <<row_exists, row>>
       ELSE IF mgr[r].dry_run
            THEN /\ SetRun(r, [mgr[r] EXCEPT !.pc = "read_row", !.row_num = "placeholder"])
                 /\ UNCHANGED <<row_exists, row>>
            ELSE /\ row_exists' = TRUE
                 /\ row' = create_date_row(mgr[r].booking.year, booking_date.weekday)
                 /\ SetRun(r, [mgr[r] EXCEPT !.pc = "read_row", !.row_num = "created"])
    /\ UNCHANGED <<booking_date, bold_cells, calendar, runs_started, probe>>

\* Step 4: read the row
ReadRow(r) ==
    /\ mgr[r].pc = "read_row"
    /\ SetRun(r, [mgr[r] EXCEPT
            !.pc = "validate",
            !.row_data = IF mgr[r].dry_run /\ mgr[r].row_num = "placeholder"
                         THEN EmptyDict ELSE row])
    /\ UNCHANGED <<booking_date, row_exists, row, bold_cells, calendar, runs_started, probe>>

\* Phase 1: compare the matrix count with the calendar count
Validate(r) ==
    /\ mgr[r].pc = "validate"
    /\ LET rec == mgr[r]
           b == rec.booking
           col_map == COLUMN_MAPS[b.year]
       IN IF b.is_unassigned
          THEN SetRun(r, [rec EXCEPT !.pc = "matrix_write"])
          ELSE IF b.dj_short_name \notin DOMAIN col_map
               THEN SetRun(r, Halted(rec, TRUE))
               ELSE \E outcome \in LookupOutcomes :
                      LET cell_value == RowGet(rec.row_data, b.dj_short_name)
                          matrix_count == count_booked_events(cell_value)
                          cal_conflicts ==
                              check_calendar_conflicts(calendar, b.dj_initials_bracket, outcome)
                          calendar_count == Len(cal_conflicts)
                          seen == [rec EXCEPT !.matrix_count = matrix_count,
                                              !.cal_conflicts = cal_conflicts,
                                              !.lookup = outcome]
                      IN IF matrix_count # calendar_count
                         THEN SetRun(r, Halted(seen, TRUE))
                         ELSE IF matrix_count > 0
                              THEN IF rec.dry_run
                                   THEN SetRun(r, [seen EXCEPT !.pc = "matrix_write",
                                                               !.allow_multiple = TRUE])
                                   ELSE SetRun(r, [seen EXCEPT !.pc = "confirm"])
                              ELSE SetRun(r, [seen EXCEPT !.pc = "matrix_write"])
    /\ UNCHANGED <<booking_date, row_exists, row, bold_cells, calendar, runs_started, probe>>

\* show_multiple_booking_dialog: the button returned, or the dialog times out
DialogChoices == {"Add Booking", "Cancel", "TimeoutExpired"}

\* variant: every button counts as approval
show_multiple_booking_dialog_any_button(choice) == choice \in DialogChoices

show_multiple_booking_dialog(choice) == choice = "Add Booking"

Confirm(r) ==
    /\ mgr[r].pc = "confirm"
    /\ \E choice \in DialogChoices :
         LET rec == [mgr[r] EXCEPT !.approved = (choice = "Add Booking"),
                                   !.declined = (choice = "Cancel")]
         IN IF choice = "TimeoutExpired"
            THEN SetRun(r, Raised(rec))
            ELSE IF show_multiple_booking_dialog(choice)
                 THEN SetRun(r, [rec EXCEPT !.pc = "matrix_write", !.allow_multiple = TRUE])
                 ELSE SetRun(r, Halted(rec, FALSE))
    /\ UNCHANGED <<booking_date, row_exists, row, bold_cells, calendar, runs_started, probe>>

\* variant: the backup assessment runs for every booking
AfterMatrixWrite_always_assess(booking) == "backup_assess"

\* the backup assessment is skipped for an unassigned booking
AfterMatrixWrite(booking) == IF booking.is_unassigned THEN "cal_primary" ELSE "backup_assess"

\* Phase 2: write the primary booking to the matrix
MatrixWrite(r) ==
    /\ mgr[r].pc = "matrix_write"
    /\ LET rec == mgr[r]
           b == rec.booking
           target == IF b.is_unassigned THEN "TBA" ELSE b.dj_short_name
           current_value == RowGet(rec.row_data, target)
           new_value == IF b.is_unassigned THEN increment_tba(current_value)
                        ELSE IF rec.allow_multiple THEN increment_booked(current_value)
                             ELSE "BOOKED"
           op == IF rec.dry_run THEN "would_write" ELSE "write_cell"
       IN /\ IF rec.dry_run THEN UNCHANGED row
             ELSE row' = [row EXCEPT ![target] = new_value]
          /\ SetRun(r, [rec EXCEPT
                 !.pc = AfterMatrixWrite(b),
                 !.row_data = DictSet(rec.row_data, target, new_value),
                 !.effects = Append(@, Effect(op, target, new_value)),
                 !.overwrote = @ \/ (~rec.dry_run /\ row[target] # current_value)])
    /\ UNCHANGED <<booking_date, row_exists, bold_cells, calendar, runs_started, probe>>

\* variant: the candidate loop without the check against the booked DJ
IsCandidate_including_booked(dj, rec, bold_now, weekday) ==
    LET b == rec.booking
        cell_val == RowGet(rec.row_data, dj)
        bold == /\ dj = "Woody"
                /\ Upper(Strip(cell_val)) = "OUT"
                /\ ~rec.dry_run
                /\ dj \in bold_now
    IN /\ dj \in DOMAIN COLUMN_MAPS[b.year]
       /\ can_backup(dj, cell_val, bold, weekday, b.year)

\* the body of the candidate loop: is this DJ offered as a backup
IsCandidate(dj, rec, bold_now, weekday) ==
    LET b == rec.booking
        cell_val == RowGet(rec.row_data, dj)
        bold == /\ dj = "Woody"
                /\ Upper(Strip(cell_val)) = "OUT"
                /\ ~rec.dry_run
                /\ dj \in bold_now
    IN /\ dj # b.dj_short_name
       /\ dj \in DOMAIN COLUMN_MAPS[b.year]
       /\ can_backup(dj, cell_val, bold, weekday, b.year)

\* the candidate loop of the backup assessment, in the order of the eligible list
RECURSIVE BackupCandidates(_, _, _, _)
BackupCandidates(names, rec, bold_now, weekday) ==
    IF names = <<>> THEN <<>>
    ELSE (IF IsCandidate(Head(names), rec, bold_now, weekday) THEN <<Head(names)>> ELSE <<>>)
         \o BackupCandidates(Tail(names), rec, bold_now, weekday)

\* the list item shown for a candidate
BackupLabel(dj_name, cell_val) ==
    dj_name \o " (" \o (IF is_paid_backup(dj_name) THEN "paid" ELSE "unpaid") \o ")"
    \o (IF can_backup_note(dj_name, cell_val) # ""
        THEN " - " \o can_backup_note(dj_name, cell_val) ELSE "")

\* the DJ a chosen list item stands for ("" for Skip)
ExtractChoice(choice, candidates) ==
    LET hits == {i \in 1..Len(candidates) : StartsWith(choice, candidates[i])}
    IN IF choice \in {"", "SKIP", "Skip", "false"} \/ hits = {} THEN ""
       ELSE candidates[CHOOSE i \in hits : \A j \in hits : i <= j]

\* show_backup_dialog: the choices the operator can return
show_backup_dialog(candidates, existing_backup, row_data) ==
    IF existing_backup # "" \/ candidates = <<>> THEN {""}
    ELSE {ExtractChoice(BackupLabel(candidates[i], RowGet(row_data, candidates[i])), candidates) :
             i \in 1..Len(candidates)}
         \cup {ExtractChoice("Skip", candidates)}

\* Phase 2: backup assessment and the backup dialog
BackupAssess(r) ==
    /\ mgr[r].pc = "backup_assess"
    /\ LET rec == mgr[r]
           b == rec.booking
           spots == calculate_spots_remaining(rec.row_data, b.year, booking_date.weekday)
           existing_backup == check_existing_backup(rec.row_data)
           candidates == BackupCandidates(BACKUP_ELIGIBLE_DJS(b.year), rec, bold_cells,
                                          booking_date.weekday)
           seen == [rec EXCEPT !.spots = spots, !.existing_backup = existing_backup,
                               !.candidates = candidates]
       IN IF rec.dry_run
          THEN SetRun(r, [seen EXCEPT !.pc = "cal_primary"])
          ELSE \/ \E backup_dj \in show_backup_dialog(candidates, existing_backup, rec.row_data) :
                    SetRun(r, [seen EXCEPT !.backup_dj = backup_dj,
                                           !.chosen_backup = backup_dj,
                                           !.pc = IF backup_dj # "" THEN "backup_check"
                                                  ELSE "cal_primary"])
               \/ SetRun(r, Raised(seen))
    /\ UNCHANGED <<booking_date, row_exists, row, bold_cells, calendar, runs_started, probe>>

\* Phase 2: re-check the chosen backup against the calendar, then write BACKUP
BackupCheck(r) ==
    /\ mgr[r].pc = "backup_check"
    /\ \E outcome \in LookupOutcomes :
         LET rec == mgr[r]
             backup_initials_bracket == "[" \o get_dj_initials(rec.backup_dj) \o "]"
             backup_cal_conflicts ==
                 check_calendar_conflicts(calendar, backup_initials_bracket, outcome)
         IN IF backup_cal_conflicts # <<>>
            THEN /\ SetRun(r, [rec EXCEPT !.pc = "cal_primary", !.backup_dj = "",
                                          !.warnings = @ + (IF rec.dry_run THEN 0 ELSE 1)])
                 /\ UNCHANGED row
            ELSE /\ IF rec.dry_run THEN UNCHANGED row
                    ELSE row' = [row EXCEPT ![rec.backup_dj] = "BACKUP"]
                 /\ SetRun(r, [rec EXCEPT
                        !.pc = "cal_primary",
                        !.effects = Append(@, Effect(IF rec.dry_run THEN "would_write"
                                                     ELSE "write_cell",
                                                     rec.backup_dj, "BACKUP"))])
    /\ UNCHANGED <<booking_date, row_exists, bold_cells, calendar, runs_started, probe>>

\* osascript returns 0 (event made) or not (RuntimeError)
CreateOutcomes == {"created", "RuntimeError"}

\* Phase 3: the primary timed event
CalPrimary(r) ==
    /\ mgr[r].pc = "cal_primary"
    /\ LET rec == mgr[r]
           title == PrimaryTitle(rec.booking)
       IN IF ~calculate_event_times(rec.booking)
          THEN /\ SetRun(r, [rec EXCEPT !.pc = "cal_backup"])
               /\ UNCHANGED calendar
          ELSE IF rec.dry_run
               THEN /\ SetRun(r, [rec EXCEPT
                          !.pc = "cal_backup",
                          !.effects = Append(@, Effect("would_create", "timed", title))])
                    /\ UNCHANGED calendar
               ELSE \E outcome \in CreateOutcomes :
                      IF outcome = "created"
                      THEN /\ calendar' = Append(calendar, title)
                           /\ SetRun(r, [rec EXCEPT
                                  !.pc = "cal_backup",
                                  !.effects = Append(@, Effect("create_event", "timed", title))])
                      ELSE /\ UNCHANGED calendar
                           /\ SetRun(r, Raised([rec EXCEPT
                                  !.effects = Append(@, Effect("create_failed", "timed", title))]))
    /\ UNCHANGED <<booking_date, row_exists, row, bold_cells, runs_started, probe>>

\* Phase 3: the all-day backup event, then the summary
CalBackup(r) ==
    /\ mgr[r].pc = "cal_backup"
    /\ LET rec == mgr[r]
           backup_title == get_backup_title(rec.backup_dj)
           finished == [rec EXCEPT !.pc = "done", !.result = "True", !.exit_code = 0]
       IN IF rec.backup_dj = ""
          THEN /\ SetRun(r, finished)
               /\ UNCHANGED calendar
          ELSE IF rec.dry_run
               THEN /\ SetRun(r, [finished EXCEPT
                          !.effects = Append(@, Effect("would_create", "allday", backup_title))])
                    /\ UNCHANGED calendar
               ELSE \E outcome \in CreateOutcomes :
                      IF outcome = "created"
                      THEN /\ calendar' = Append(calendar, backup_title)
                           /\ SetRun(r, [finished EXCEPT
                                  !.effects = Append(@, Effect("create_event", "allday",
                                                               backup_title))])
                      ELSE /\ UNCHANGED calendar
                           /\ SetRun(r, Raised([rec EXCEPT
                                  !.effects = Append(@, Effect("create_failed", "allday",
                                                               backup_title))]))
    /\ UNCHANGED <<booking_date, row_exists, row, bold_cells, runs_started, probe>>

Step(r) ==
    \/ Start(r)
    \/ FindDateRow(r)
    \/ ReadRow(r)
    \/ Validate(r)
    \/ Confirm(r)
    \/ MatrixWrite(r)
    \/ BackupAssess(r)
    \/ BackupCheck(r)
    \/ CalPrimary(r)
    \/ CalBackup(r)

\* the operator-facing tool runs one booking at a time
Next == \E r \in SerialRuns : Step(r)

Spec == Init /\ [][Next]_vars

(***************************************************************************)
(* Observations used by the properties                                     *)
(***************************************************************************)
RECURSIVE SelectEffects(_, _)
SelectEffects(effects, ops) ==
    IF effects = <<>> THEN <<>>
    ELSE (IF Head(effects).op \in ops THEN <<Head(effects)>> ELSE <<>>)
         \o SelectEffects(Tail(effects), ops)

\* what a run really did to the sheet and the calendar
RealEffects(rec) == SelectEffects(rec.effects, {"write_cell", "create_event", "create_failed"})
\* matrix writes and calendar-event instructions, carried out or announced by a dry run
MatrixWrites(rec) == SelectEffects(rec.effects, {"write_cell", "would_write"})
CalendarInstructions(rec) ==
    SelectEffects(rec.effects, {"create_event", "would_create", "create_failed"})

Assigned(rec) == rec.pc # "idle" /\ ~rec.booking.is_unassigned /\ HasColumnMap(rec.booking.year)
Unassigned(rec) == rec.pc # "idle" /\ rec.booking.is_unassigned /\ HasColumnMap(rec.booking.year)

\* the booked DJ's counts in the two stores when the run validates them
MatrixCountAtValidate(rec) ==
    IF rec.start_exists THEN count_booked_events(RowGet(rec.start_row, rec.booking.dj_short_name))
    ELSE 0
CalendarCountAtValidate(rec) ==
    Len(TitlesWith(rec.start_calendar, rec.booking.dj_initials_bracket))


\* C1: for an assigned booking, whenever the booked DJ's matrix count differs
\* from the number of calendar events carrying the DJ's initials, the run
\* halts (returns False) with no matrix write and no calendar event creation.
C1_MismatchHaltsWithoutWrites ==
    \A r \in Runs :
        (Assigned(mgr[r]) /\ MatrixCountAtValidate(mgr[r]) # CalendarCountAtValidate(mgr[r]))
        => /\ mgr[r].pc \in {"find_row", "read_row", "validate", "halted"}
           /\ mgr[r].effects = <<>>

\* C2: a run that halts before the matrix write leaves the matrix (also the
\* absence of the date's row) and the calendar as they were when it started.
C2_HaltLeavesStoresUntouched ==
    \A r \in Runs :
        mgr[r].pc = "halted"
        => /\ row_exists = mgr[r].start_exists
           /\ row = mgr[r].start_row
           /\ calendar = mgr[r].start_calendar

\* C3: when the calendar lookup of the validation fails (tool missing or
\* timed out) the run halts and neither writes the matrix nor creates an event.
C3_FailedLookupHalts ==
    \A r \in Runs :
        mgr[r].lookup \in {"FileNotFoundError", "TimeoutExpired"}
        => /\ mgr[r].pc = "halted"
           /\ mgr[r].effects = <<>>

\* C4: when the chosen backup candidate has an event in the calendar on the
\* date, BACKUP is not written to the candidate's cell and no backup event
\* follows, while the primary matrix write stays in place.
C4_ConflictingBackupNotAssigned ==
    \A r \in Runs :
        LET rec == mgr[r]
            bracket == "[" \o get_dj_initials(rec.chosen_backup) \o "]"
        IN (rec.pc = "cal_primary" /\ rec.chosen_backup # ""
            /\ TitlesWith(calendar, bracket) # <<>>)
           => /\ rec.backup_dj = ""
              /\ row[rec.chosen_backup] # "BACKUP"
              /\ Len(MatrixWrites(rec)) = 1
              /\ row[rec.booking.dj_short_name] = MatrixWrites(rec)[1].value

\* C5: when the booked DJ's matrix and calendar counts agree and are above
\* zero, nothing is written or created unless the operator approved the
\* additional booking; a declined run halts and changes nothing.
C5_AdditionalBookingNeedsApproval ==
    \A r \in Runs :
        LET rec == mgr[r]
            agree == /\ Assigned(rec)
                     /\ MatrixCountAtValidate(rec) > 0
                     /\ MatrixCountAtValidate(rec) = CalendarCountAtValidate(rec)
        IN /\ (agree /\ RealEffects(rec) # <<>>) => rec.approved
           /\ (agree /\ rec.declined)
              => /\ rec.pc = "halted"
                 /\ rec.effects = <<>>
                 /\ row = rec.start_row
                 /\ calendar = rec.start_calendar

C5_Witness ==
    \E r \in Runs :
        /\ Assigned(mgr[r])
        /\ MatrixCountAtValidate(mgr[r]) > 0
        /\ MatrixCountAtValidate(mgr[r]) = CalendarCountAtValidate(mgr[r])
        /\ mgr[r].approved
        /\ SelectEffects(mgr[r].effects, {"write_cell"}) # <<>>

PrimaryCreationFailed(rec) ==
    \E i \in 1..Len(rec.effects) :
        rec.effects[i].op = "create_failed" /\ rec.effects[i].target = "timed"

\* C6: when the creation of the primary calendar event fails after the matrix
\* write, every cell the run wrote keeps the written value (no rollback), the
\* failure is shown to the operator and the process exits with an error.
C6_CalendarFailureKeepsMatrixAndReports ==
    \A r \in Runs :
        PrimaryCreationFailed(mgr[r])
        => /\ mgr[r].pc = "error"
           /\ mgr[r].result = "exception"
           /\ mgr[r].exit_code = 1
           /\ mgr[r].warnings >= 1
           /\ \A i \in 1..Len(mgr[r].effects) :
                 mgr[r].effects[i].op = "write_cell"
                 => row[mgr[r].effects[i].target] = mgr[r].effects[i].value

C6_Witness ==
    \E r \in Runs :
        /\ PrimaryCreationFailed(mgr[r])
        /\ Assigned(mgr[r])
        /\ SelectEffects(mgr[r].effects, {"write_cell"}) # <<>>
        /\ row[mgr[r].booking.dj_short_name] = "BOOKED x 2"

\* the largest N of BOOKED x N the properties spell out
MaxMultiplier == 4

C7_Write(r) ==
    LET rec == mgr[r]
        dj == rec.booking.dj_short_name
        old == Upper(Strip(row[dj]))
    IN (rec.pc = "matrix_write" /\ mgr'[r].pc # "matrix_write"
        /\ ~rec.booking.is_unassigned /\ ~rec.dry_run)
       => /\ count_booked_events(row'[dj]) = count_booked_events(row[dj]) + 1
          /\ \A c \in DOMAIN row : c # dj => row'[c] = row[c]
          /\ old = "" => row'[dj] = "BOOKED"
          /\ old = "BOOKED" => row'[dj] = "BOOKED x 2"
          /\ \A n \in 2..MaxMultiplier :
                old = "BOOKED X " \o IntToStr(n) => row'[dj] = "BOOKED x " \o IntToStr(n + 1)

\* C7: the matrix write of an assigned booking takes the DJ's cell from blank
\* to BOOKED, from BOOKED to BOOKED x 2 and from BOOKED x n to BOOKED x (n+1):
\* the cell counts one booking more than before, and no other cell changes.
C7_MatrixWriteAddsOneBooking == [][\A r \in Runs : C7_Write(r)]_vars

C7_Witness ==
    \E r \in Runs :
        /\ mgr[r].pc = "backup_assess"
        /\ ~mgr[r].dry_run
        /\ row["Paul"] = "BOOKED x 3"
        /\ mgr[r].start_row["Paul"] = "BOOKED x 2"

(***************************************************************************)
(* increment_tba as a pure function: inputs drawn from the TBA grammar      *)
(***************************************************************************)
MaxTbaN == 10

BookedClauses ==
    {"BOOKED", "booked"}
    \cup {"BOOKED x " \o IntToStr(n) : n \in 1..MaxTbaN}
    \cup {"BOOKED X " \o IntToStr(n) : n \in 1..MaxTbaN}
    \cup {"booked x " \o IntToStr(n) : n \in 1..MaxTbaN}
AagClauses == {"AAG", "aag"}
Separators == {", ", ","}

\* blank, one BOOKED clause, AAG, and the combinations of the two
SimpleTbaValues ==
    {"", " "} \cup BookedClauses \cup AagClauses
    \cup {b \o sep \o a : b \in BookedClauses, sep \in Separators, a \in AagClauses}
    \cup {a \o sep \o b : b \in {"BOOKED", "BOOKED x 2"}, sep \in Separators, a \in AagClauses}
    \cup {"AAG, AAG", "BOOKED, AAG, AAG"}

\* combinations that repeat the BOOKED clause
RepeatedTbaValues ==
    {b1 \o ", " \o b2 : b1 \in {"BOOKED", "BOOKED x 2"}, b2 \in {"BOOKED", "BOOKED x 3"}}
    \cup {"BOOKED, BOOKED, AAG"}

TbaValues == SimpleTbaValues \cup RepeatedTbaValues

InitTBA ==
    /\ booking_date = [year |-> 2026, weekday |-> 5]
    /\ row_exists = FALSE
    /\ row = BlankRow(2026)
    /\ bold_cells = {}
    /\ calendar = <<>>
    /\ mgr = [r \in Runs |-> IdleRun]
    /\ runs_started = 0
    /\ probe \in [fn : {"input"}, arg : TbaValues, out : {""}]

ApplyIncrementTba ==
    /\ probe.fn = "input"
    /\ probe' = [fn |-> "increment_tba", arg |-> probe.arg, out |-> increment_tba(probe.arg)]
    /\ UNCHANGED <<booking_date, row_exists, row, bold_cells, calendar, mgr, runs_started>>

\* the next unassigned booking on the same date starts from the written value
NextTbaBooking ==
    /\ probe.fn = "increment_tba"
    /\ parse_tba_value(probe.out) <= MaxTbaN
    /\ probe' = [fn |-> "input", arg |-> probe.out, out |-> ""]
    /\ UNCHANGED <<booking_date, row_exists, row, bold_cells, calendar, mgr, runs_started>>

NextTBA == ApplyIncrementTba \/ NextTbaBooking

SpecTBA == InitTBA /\ [][NextTBA]_vars

TbaParts(x) == MapStrip(Split(x, ","))
HasAAG(x) == \E i \in 1..Len(TbaParts(x)) : Upper(TbaParts(x)[i]) = "AAG"
BookedClauseCount(x) == Len(SelectParts(TbaParts(x), FALSE))

TbaExamples ==
    /\ probe.arg = "" => probe.out = "BOOKED"
    /\ probe.arg = "BOOKED" => probe.out = "BOOKED x 2"
    /\ probe.arg = "BOOKED x 2" => probe.out = "BOOKED x 3"
    /\ probe.arg = "AAG" => probe.out = "BOOKED, AAG"
    /\ probe.arg = "BOOKED, AAG" => probe.out = "BOOKED x 2, AAG"

TbaAtStart(rec) == IF rec.start_exists THEN RowGet(rec.start_row, "TBA") ELSE ""
WriteOp(rec) == IF rec.dry_run THEN "would_write" ELSE "write_cell"
CreateOp(rec) == IF rec.dry_run THEN "would_create" ELSE "create_event"

UnassignedRunShape(rec) ==
    /\ rec.lookup = "none"
    /\ rec.candidates = <<>>
    /\ rec.chosen_backup = ""
    /\ MatrixWrites(rec) = <<Effect(WriteOp(rec), "TBA", increment_tba(TbaAtStart(rec)))>>
    /\ \A c \in DOMAIN row : c # "TBA" => row[c] = IF rec.start_exists THEN rec.start_row[c]
                                                  ELSE row[c]

BookedValue(rec) ==
    IF MatrixCountAtValidate(rec) = 0 THEN "BOOKED"
    ELSE increment_booked(RowGet(rec.start_row, rec.booking.dj_short_name))

BackupRun(rec) == Assigned(rec) /\ rec.pc = "done" /\ rec.backup_dj # ""

NeverOwnBackup ==
    \A r \in Runs :
        Assigned(mgr[r])
        => \A i \in 1..Len(mgr[r].candidates) :
              mgr[r].candidates[i] # mgr[r].booking.dj_short_name

InitBackupCells == {"", "BACKUP"}

BackupCells(r) == Cardinality({c \in DOMAIN r : Upper(Strip(r[c])) = "BACKUP"})

\* a row typed by hand with at most one BACKUP cell, and the calendar that goes with it
InitOneBackup ==
    /\ booking_date = [year |-> 2026, weekday |-> 5]
    /\ row_exists = TRUE
    /\ \E henry \in InitBackupCells, woody \in InitBackupCells \cup {"OUT"},
          paul \in InitBackupCells \cup {"BOOKED"} :
          row = [c \in ColNames(2026) |->
                    CASE c = "Henry" -> henry
                      [] c = "Woody" -> woody
                      [] c = "Paul" -> paul
                      [] c \in {"Stefano", "Felipe"} -> "OUT"
                      [] OTHER -> ""]
    /\ BackupCells(row) <= 1
    /\ bold_cells = {}
    /\ calendar = IF row["Paul"] = "BOOKED" THEN <<"[PB] Cat and Dan">> ELSE <<>>
    /\ mgr = [r \in Runs |-> IdleRun]
    /\ runs_started = 0
    /\ probe = [fn |-> "none", arg |-> "", out |-> ""]

SpecOneBackup == InitOneBackup /\ [][Next]_vars

AssessmentDone(rec) ==
    /\ ~rec.booking.is_unassigned
    /\ rec.pc \in {"backup_check", "cal_primary", "cal_backup", "done", "error"}
    /\ Len(MatrixWrites(rec)) >= 1

WroteBackup(rec) ==
    \E i \in 1..Len(rec.effects) :
        rec.effects[i].op \in {"write_cell", "would_write"} /\ rec.effects[i].value = "BACKUP"

\* C11: when a DJ's cell already holds BACKUP at the backup assessment, the
\* operator is offered no candidate and the run writes no BACKUP cell; so a
\* row that starts with at most one BACKUP cell never holds two, however many
\* runs follow one another.
C11_OneBackupPerRow ==
    /\ \A r \in Runs :
          (AssessmentDone(mgr[r]) /\ mgr[r].existing_backup # "")
          => /\ mgr[r].chosen_backup = ""
             /\ mgr[r].backup_dj = ""
             /\ ~WroteBackup(mgr[r])
    /\ BackupCells(row) <= 1

C11_Witness ==
    \E r \in Runs :
        /\ mgr[r].pc = "done" /\ ~mgr[r].dry_run
        /\ mgr[r].existing_backup = "Woody"
        /\ Len(mgr[r].candidates) >= 1
        /\ row["Paul"] = "BOOKED" /\ row["Woody"] = "BACKUP" /\ row["Henry"] = ""

(***************************************************************************)
(* Two invocations of the tool at the same time, on the same date          *)
(***************************************************************************)
\* the sheet and the calendar agree on the booked DJ when the invocations start
InitConcurrent ==
    /\ booking_date = [year |-> 2026, weekday |-> 5]
    /\ row_exists = TRUE
    /\ \E paul \in {"", "BOOKED"}, woody \in {"", "OUT"} :
          /\ row = InitRow(2026, paul, woody, "")
          /\ calendar = IF paul = "BOOKED" THEN <<"[PB] Cat and Dan">> ELSE <<>>
    /\ bold_cells = {}
    /\ mgr = [r \in Runs |-> IdleRun]
    /\ runs_started = 0
    /\ probe = [fn |-> "none", arg |-> "", out |-> ""]

ConcurrentRuns == {1, 2}

\* each of the two processes is one invocation of the tool
StepConcurrent(r) ==
    \/ (mgr[r].pc = "idle" /\ Start(r))
    \/ FindDateRow(r)
    \/ ReadRow(r)
    \/ Validate(r)
    \/ Confirm(r)
    \/ MatrixWrite(r)
    \/ BackupAssess(r)
    \/ BackupCheck(r)
    \/ CalPrimary(r)
    \/ CalBackup(r)

\* nothing orders the steps of one invocation against those of the other
NextConcurrent == \E r \in ConcurrentRuns : StepConcurrent(r)

SpecConcurrent == InitConcurrent /\ [][NextConcurrent]_vars

PaulEvents == Len(TitlesWith(calendar, "[PB]"))

\* the matrix cell records fewer bookings than the calendar holds events
LostUpdate == count_booked_events(row["Paul"]) < PaulEvents

WroteCell(rec, dj) ==
    \E i \in 1..Len(rec.effects) :
        rec.effects[i].op = "write_cell" /\ rec.effects[i].target = dj

\* C12: the protocol holds no lock between the validation and the matrix
\* write: interleaved runs for the same date and DJ can both pass validation
\* against the same cell value and lose an update (the witness); and the cell
\* records fewer bookings than the calendar holds events only after a run has
\* written over a cell that another run changed since it was read.
C12_LostUpdateOnlyByOverwrite ==
    LostUpdate => \E r \in ConcurrentRuns : mgr[r].overwrote

C12_Witness ==
    /\ LostUpdate
    /\ \E r1, r2 \in ConcurrentRuns :
          /\ r1 # r2
          /\ mgr[r1].pc = "done" /\ mgr[r2].pc = "done"
          /\ mgr[r1].booking.dj_short_name = "Paul" /\ mgr[r2].booking.dj_short_name = "Paul"
          /\ WroteCell(mgr[r1], "Paul") /\ WroteCell(mgr[r2], "Paul")
          /\ mgr[r1].lookup = "ok" /\ mgr[r2].lookup = "ok"
          /\ mgr[r1].matrix_count = mgr[r2].matrix_count
          /\ mgr[r1].start_row = mgr[r2].start_row
          /\ row["Paul"] = "BOOKED"
          /\ PaulEvents = 2

(***************************************************************************)
(* Rule engine: one cell judged by check_dj_availability and can_backup    *)
(***************************************************************************)
\* cell texts: the status words in the sheet's spelling, other casings and
\* paddings, and words outside the closed set
RuleValues ==
    {"", "OUT", "BOOKED", "BACKUP", "MAXED", "RESERVED", "STANFORD", "LAST", "OK",
     "OK TO BACKUP", "DAD", "out", " Booked ", "Maxed", "Last", "reserved",
     "BOOKED x 2", "VACATION", "PENDING", "BOKKED"}

\* Monday, Wednesday, Saturday, Sunday
RuleWeekdays == {0, 2, 5, 6}

RuleYears == {2025, 2026, 2027, NoMapYear}

InitRules ==
    /\ booking_date = [year |-> 2026, weekday |-> 5]
    /\ row_exists = TRUE
    /\ row = BlankRow(2026)
    /\ bold_cells = {}
    /\ calendar = <<>>
    /\ mgr = [r \in Runs |-> IdleRun]
    /\ runs_started = 0
    /\ probe \in [fn : {"input"},
                  arg : [dj : DJs, value : RuleValues, weekday : RuleWeekdays,
                         is_bold : BOOLEAN, year : RuleYears],
                  out : {""}]

\* both judges applied to the same cell
ApplyRules ==
    /\ probe.fn = "input"
    /\ probe' = [fn |-> "rules", arg |-> probe.arg,
                 out |-> [availability |->
                              check_dj_availability(probe.arg.dj, probe.arg.value,
                                                    probe.arg.weekday, probe.arg.is_bold,
                                                    IntToStr(probe.arg.year)),
                          backup |->
                              can_backup(probe.arg.dj, probe.arg.value, probe.arg.is_bold,
                                         probe.arg.weekday, probe.arg.year)]]
    /\ UNCHANGED <<booking_date, row_exists, row, bold_cells, calendar, mgr, runs_started>>

NextRules == ApplyRules

SpecRules == InitRules /\ [][NextRules]_vars

Judged == probe.fn = "rules"
StatusWord == Lower(Strip(probe.arg.value))
IsUnknownValue == StatusWord # "" /\ ~KNOWN_CELL_VALUES(StatusWord)

\* C13: a non-empty cell value outside the closed set of status words gives
\* (false, false) from check_dj_availability and not-eligible from can_backup,
\* for every DJ, date, bold flag and year
C13_UnknownNeverAvailable ==
    (Judged /\ IsUnknownValue) =>
        /\ probe.out.availability = <<FALSE, FALSE>>
        /\ ~probe.out.backup

\* C14: Booked, Backup, Maxed and Reserved give (false, false) for every DJ,
\* date, bold flag and year, and not-eligible from can_backup
C14_UniversalUnavailable ==
    (Judged /\ StatusWord \in {"booked", "backup", "maxed", "reserved"}) =>
        /\ probe.out.availability = <<FALSE, FALSE>>
        /\ ~probe.out.backup

\* C15: Stanford and Last give (true, true) for every DJ, date, bold flag and
\* year, and eligible from can_backup
C15_StanfordLastAvailable ==
    (Judged /\ StatusWord \in {"stanford", "last"}) =>
        /\ probe.out.availability = <<TRUE, TRUE>>
        /\ probe.out.backup

FelipeJudged(years) ==
    /\ Judged
    /\ probe.arg.dj = "Felipe"
    /\ probe.arg.year \in years
    /\ (StatusWord = "" \/ StatusWord \in KnownWords)

AnalyzerYears == {2025, 2026, 2027}
AnalyzerWeekdays == {2, 5}

AnalyzerCells(name) ==
    CASE name = "Henry" -> {"", "BOOKED", "OUT"}
      [] name = "Woody" -> {"", "OUT", "OUT (BOLD)", "BACKUP"}
      [] name = "Paul" -> {"", "BOOKED"}
      [] name = "Stefano" -> {"", "OUT"}
      [] name = "Felipe" -> {"", "OK", "OUT"}
      [] name = "TBA" -> {"", "BOOKED", "BOOKED x 2, AAG", "BOOKED x -2"}
      [] name = "Stephanie" -> {"", "RESERVED"}
      [] name = "AAG" -> {"", "RESERVED"}
      [] OTHER -> {""}

\* the cells of the year's columns, one value each
AnalyzerRow(year, henry, woody, paul, stefano, felipe, tba, stephanie, aag) ==
    [c \in ColNames(year) |->
        CASE c = "Henry" -> henry
          [] c = "Woody" -> woody
          [] c = "Paul" -> paul
          [] c = "Stefano" -> stefano
          [] c = "Felipe" -> felipe
          [] c = "TBA" -> tba
          [] c = "Stephanie" -> stephanie
          [] c = "AAG" -> aag
          [] OTHER -> ""]

InitAnalyze ==
    /\ booking_date = [year |-> 2026, weekday |-> 5]
    /\ row_exists = TRUE
    /\ row = BlankRow(2026)
    /\ bold_cells = {}
    /\ calendar = <<>>
    /\ mgr = [r \in Runs |-> IdleRun]
    /\ runs_started = 0
    /\ \E year \in AnalyzerYears, weekday \in AnalyzerWeekdays :
          \E henry \in AnalyzerCells("Henry"), woody \in AnalyzerCells("Woody"),
             paul \in AnalyzerCells("Paul"), stefano \in AnalyzerCells("Stefano"),
             felipe \in AnalyzerCells("Felipe"), tba \in AnalyzerCells("TBA"),
             stephanie \in AnalyzerCells("Stephanie"),
             aag \in (IF "AAG" \in ColNames(year) THEN AnalyzerCells("AAG") ELSE {""}) :
             probe = [fn |-> "input",
                      arg |-> [selected_data |->
                                   AnalyzerRow(year, henry, woody, paul, stefano, felipe, tba,
                                               stephanie, aag),
                               weekday |-> weekday, year |-> year],
                      out |-> ""]

ApplyAnalyze ==
    /\ probe.fn = "input"
    /\ probe' = [fn |-> "analyze", arg |-> probe.arg,
                 out |-> analyze_availability(probe.arg.selected_data, probe.arg.weekday,
                                              IntToStr(probe.arg.year))]
    /\ UNCHANGED <<booking_date, row_exists, row, bold_cells, calendar, mgr, runs_started>>

NextAnalyze == ApplyAnalyze

SpecAnalyze == InitAnalyze /\ [][NextAnalyze]_vars

Analyzed == probe.fn = "analyze"
NoBackupCoverage == probe.out.backup_count = 0 /\ probe.out.available_backup = <<>>
AtLeastZero(n) == IF n > 0 THEN n ELSE 0

\* C17: available_spots is max(0, |available_for_booking| - tba_count - (1 if
\* aag_reserved)), except 0 when backup_count = 0 and nobody is available for
\* backup; it is never negative and never above |available_for_booking|
C17_AvailableSpotsFormula ==
    Analyzed =>
        LET n == Len(probe.out.available_booking)
            aag == IF probe.out.aag_reserved THEN 1 ELSE 0
        IN /\ probe.out.available_spots =
                 IF NoBackupCoverage THEN 0
                 ELSE AtLeastZero(n - probe.out.tba_bookings - aag)
           /\ probe.out.available_spots >= 0
           /\ probe.out.available_spots <= n

AllBlankRow == \A c \in DOMAIN probe.arg.selected_data : probe.arg.selected_data[c] = ""

\* the years in which three DJs (Henry, Woody, Paul) are bookable on a blank cell
ThreeBookableYears == {2026, 2027}

\* C18 (as stated): an all-blank row in a year with three bookable DJs gives
\* available_spots = 3 when backup coverage exists and 0 when it does not, on
\* every date of the year
C18_AllBlankThreeSpotsEveryDate ==
    (Analyzed /\ AllBlankRow /\ probe.arg.year \in ThreeBookableYears) =>
        probe.out.available_spots = IF NoBackupCoverage THEN 0 ELSE 3

\* C18 (amended): an all-blank row in a year with three bookable DJs always has
\* backup coverage and gives available_spots = 3 on weekend dates and 2 on
\* weekdays, where Henry is available for backup only
C18_AllBlankThreeSpotsOnWeekends ==
    (Analyzed /\ AllBlankRow /\ probe.arg.year \in ThreeBookableYears) =>
        /\ ~NoBackupCoverage
        /\ probe.out.available_spots = IF probe.arg.weekday >= 5 THEN 3 ELSE 2
        /\ probe.out.available_booking =
              IF probe.arg.weekday >= 5 THEN <<"Henry", "Woody", "Paul">> ELSE <<"Woody", "Paul">>

C18_Witness ==
    /\ Analyzed
    /\ AllBlankRow
    /\ probe.arg.year = 2027
    /\ probe.arg.weekday = 2
    /\ probe.out.available_spots = 2
    /\ probe.out.available_backup = <<"Henry", "Woody", "Paul", "Felipe">>

(***************************************************************************)
(* Booking comparator (booking_comparator.py)                              *)
(***************************************************************************)
\* f"{month}/{day}"
DateKey(month, day) == IntToStr(month) \o "/" \o IntToStr(day)

\* variant: the day comes first in the key
date_sort_key_day_first(d) ==
    LET parts == Split(d, "/") IN <<ParseInt(parts[2]).val, ParseInt(parts[1]).val>>

\* (int(parts[0]), int(parts[1]))
date_sort_key(d) ==
    LET parts == Split(d, "/") IN <<ParseInt(parts[1]).val, ParseInt(parts[2]).val>>

\* tuple comparison of two sort keys
KeyLess(a, b) == a[1] < b[1] \/ (a[1] = b[1] /\ a[2] < b[2])

\* sorted(all_date_keys, key=date_sort_key)
RECURSIVE SortedDates(_)
SortedDates(date_keys) ==
    IF date_keys = {} THEN <<>>
    ELSE LET first == CHOOSE d \in date_keys :
                         \A e \in date_keys \ {d} : KeyLess(date_sort_key(d), date_sort_key(e))
         IN <<first>> \o SortedDates(date_keys \ {first})

\* set(source.get(date_key, []))
DjSet(source, date_key) ==
    IF date_key \in DOMAIN source
    THEN {source[date_key][i] : i \in 1..Len(source[date_key])}
    ELSE {}

\* all_match: the de-duplicated, sorted DJ lists of the present sources are equal
AllMatch(gig_db, avail_matrix, master_cal, has_calendar, date_key) ==
    /\ DjSet(gig_db, date_key) = DjSet(avail_matrix, date_key)
    /\ has_calendar => DjSet(avail_matrix, date_key) = DjSet(master_cal, date_key)

Issue(gig_db, avail_matrix, master_cal, date_key) ==
    [date |-> date_key,
     gig_db |-> DjSet(gig_db, date_key),
     avail_matrix |-> DjSet(avail_matrix, date_key),
     master_cal |-> DjSet(master_cal, date_key)]

RECURSIVE FindIssues(_, _, _, _, _)
FindIssues(gig_db, avail_matrix, master_cal, has_calendar, dates) ==
    IF dates = <<>> THEN <<>>
    ELSE (IF AllMatch(gig_db, avail_matrix, master_cal, has_calendar, Head(dates))
          THEN <<>>
          ELSE <<Issue(gig_db, avail_matrix, master_cal, Head(dates))>>)
         \o FindIssues(gig_db, avail_matrix, master_cal, has_calendar, Tail(dates))

\* the category of one issue among matrix, gig database and mismatch
IsMissingFromMatrix(issue) ==
    /\ issue.gig_db \ issue.avail_matrix # {}
    /\ issue.avail_matrix \ issue.gig_db = {}
    /\ issue.avail_matrix = {}

IsMissingFromGigDb(issue) ==
    /\ ~IsMissingFromMatrix(issue)
    /\ issue.avail_matrix \ issue.gig_db # {}
    /\ issue.gig_db \ issue.avail_matrix = {}
    /\ issue.gig_db = {}

IsDjMismatch(issue) == ~IsMissingFromMatrix(issue) /\ ~IsMissingFromGigDb(issue)

IsMissingFromCalendar(issue, has_calendar) ==
    /\ has_calendar
    /\ issue.gig_db \ issue.master_cal # {}
    /\ issue.master_cal = {}

\* compare_systems: the issues and the sections of the written report
compare_systems(gig_db, avail_matrix, master_cal, has_calendar) ==
    LET all_date_keys == DOMAIN gig_db \cup DOMAIN avail_matrix
                         \cup (IF has_calendar THEN DOMAIN master_cal ELSE {})
        all_dates == SortedDates(all_date_keys)
        issues == FindIssues(gig_db, avail_matrix, master_cal, has_calendar, all_dates)
        dj_mismatches == SelectSeq(issues, IsDjMismatch)
        missing_from_calendar ==
            SelectSeq(issues, LAMBDA i : IsMissingFromCalendar(i, has_calendar))
        already_reported == {dj_mismatches[i].date : i \in 1..Len(dj_mismatches)}
    IN [in_sync |-> issues = <<>>,
        issues |-> issues,
        missing_from_matrix |-> SelectSeq(issues, IsMissingFromMatrix),
        missing_from_gig_db |-> SelectSeq(issues, IsMissingFromGigDb),
        missing_from_calendar |->
            SelectSeq(missing_from_calendar, LAMBDA i : i.date \notin already_reported),
        dj_mismatches |-> dj_mismatches]

\* (month, day) of the dates compared
ComparatorDays == {<<2, 9>>, <<2, 10>>, <<10, 3>>}
ComparatorDates == {DateKey(p[1], p[2]) : p \in ComparatorDays}

\* the sorted DJ lists a source holds for a date it knows
GigDbLists == {<<"Paul">>, <<"Paul", "Paul">>, <<"Paul", "Woody">>}
MatrixLists == {<<"Paul">>, <<"Woody">>, <<"Paul", "Woody">>}
CalendarLists == {<<"Paul">>, <<"Paul", "Woody">>}

\* the dicts { "M/D": [DJ, ...] } over some of the given dates
SourceDicts(dates, lists) == UNION {[K -> lists] : K \in SUBSET dates}

InitCompare ==
    /\ booking_date = [year |-> 2026, weekday |-> 5]
    /\ row_exists = TRUE
    /\ row = BlankRow(2026)
    /\ bold_cells = {}
    /\ calendar = <<>>
    /\ mgr = [r \in Runs |-> IdleRun]
    /\ runs_started = 0
    /\ \E d1, d2 \in ComparatorDates :
          \E gig_db \in SourceDicts({d1, d2}, GigDbLists),
             avail_matrix \in SourceDicts({d1, d2}, MatrixLists),
             has_calendar \in BOOLEAN :
             \E master_cal \in (IF has_calendar THEN SourceDicts({d1, d2}, CalendarLists)
                                ELSE {EmptyDict}) :
                probe = [fn |-> "input",
                         arg |-> [gig_db |-> gig_db, avail_matrix |-> avail_matrix,
                                  master_cal |-> master_cal, has_calendar |-> has_calendar],
                         out |-> ""]

ApplyCompare ==
    /\ probe.fn = "input"
    /\ probe' = [fn |-> "compare", arg |-> probe.arg,
                 out |-> compare_systems(probe.arg.gig_db, probe.arg.avail_matrix,
                                         probe.arg.master_cal, probe.arg.has_calendar)]
    /\ UNCHANGED <<booking_date, row_exists, row, bold_cells, calendar, mgr, runs_started>>

NextCompare == ApplyCompare

SpecCompare == InitCompare /\ [][NextCompare]_vars

Compared == probe.fn = "compare"
SeqDates(issues) == {issues[i].date : i \in 1..Len(issues)}
PositionOf(issues, d) == CHOOSE i \in 1..Len(issues) : issues[i].date = d

\* the DJs a source names for a date, duplicates dropped
NamedDjs(source, d) ==
    IF d \in DOMAIN source THEN {source[d][i] : i \in 1..Len(source[d])} ELSE {}

SourcesAgree(d) ==
    /\ NamedDjs(probe.arg.gig_db, d) = NamedDjs(probe.arg.avail_matrix, d)
    /\ probe.arg.has_calendar =>
          NamedDjs(probe.arg.gig_db, d) = NamedDjs(probe.arg.master_cal, d)

C20_MissingFromCalendar ==
    Compared =>
        \A d \in ComparatorDates :
            (/\ probe.arg.has_calendar
             /\ NamedDjs(probe.arg.gig_db, d) # {}
             /\ NamedDjs(probe.arg.avail_matrix, d) = NamedDjs(probe.arg.gig_db, d)
             /\ NamedDjs(probe.arg.master_cal, d) = {})
            => /\ d \in SeqDates(probe.out.missing_from_calendar)
               /\ d \notin SeqDates(probe.out.dj_mismatches)

(***************************************************************************)
(* Booking comparator: the backup comparison at the end of the report      *)
(***************************************************************************)
RECURSIVE FindBackupIssues(_, _, _)
FindBackupIssues(matrix_backups, cal_backups, dates) ==
    IF dates = <<>> THEN <<>>
    ELSE (IF DjSet(matrix_backups, Head(dates)) = DjSet(cal_backups, Head(dates))
          THEN <<>>
          ELSE <<[date |-> Head(dates),
                  matrix |-> DjSet(matrix_backups, Head(dates)),
                  calendar |-> DjSet(cal_backups, Head(dates))]>>)
         \o FindBackupIssues(matrix_backups, cal_backups, Tail(dates))

\* compare_systems with the backup maps: the report of compare_systems and
\* the backup section, which is reached only past the return of the in-sync case
compare_systems_backups(gig_db, avail_matrix, master_cal, has_calendar, matrix_backups, cal_backups, has_backups) ==
    LET bookings == compare_systems(gig_db, avail_matrix, master_cal, has_calendar)
        reached == ~bookings.in_sync
    IN [bookings |-> bookings,
        backup_section |-> reached /\ has_backups,
        backup_issues |->
            IF reached /\ has_backups
            THEN FindBackupIssues(matrix_backups, cal_backups,
                                  SortedDates(DOMAIN matrix_backups \cup DOMAIN cal_backups))
            ELSE <<>>]

InitBackups ==
    /\ booking_date = [year |-> 2026, weekday |-> 5]
    /\ row_exists = TRUE
    /\ row = BlankRow(2026)
    /\ bold_cells = {}
    /\ calendar = <<>>
    /\ mgr = [r \in Runs |-> IdleRun]
    /\ runs_started = 0
    /\ \E d1, d2 \in ComparatorDates :
          \E gig_db \in SourceDicts({d1}, {<<"Paul">>}),
             avail_matrix \in SourceDicts({d1}, {<<"Paul">>}),
             has_calendar \in BOOLEAN, has_backups \in BOOLEAN :
             \E master_cal \in (IF has_calendar THEN SourceDicts({d1}, {<<"Paul">>})
                                ELSE {EmptyDict}),
                matrix_backups \in (IF has_backups THEN SourceDicts({d1, d2}, MatrixLists)
                                    ELSE {EmptyDict}),
                cal_backups \in (IF has_backups THEN SourceDicts({d1, d2}, CalendarLists)
                                 ELSE {EmptyDict}) :
                probe = [fn |-> "input",
                         arg |-> [gig_db |-> gig_db, avail_matrix |-> avail_matrix,
                                  master_cal |-> master_cal, has_calendar |-> has_calendar,
                                  matrix_backups |-> matrix_backups,
                                  cal_backups |-> cal_backups, has_backups |-> has_backups],
                         out |-> ""]

ApplyBackups ==
    /\ probe.fn = "input"
    /\ probe' = [fn |-> "compare_backups", arg |-> probe.arg,
                 out |-> compare_systems_backups(probe.arg.gig_db, probe.arg.avail_matrix,
                                                 probe.arg.master_cal, probe.arg.has_calendar,
                                                 probe.arg.matrix_backups,
                                                 probe.arg.cal_backups, probe.arg.has_backups)]
    /\ UNCHANGED <<booking_date, row_exists, row, bold_cells, calendar, mgr, runs_started>>

NextBackups == ApplyBackups

SpecBackups == InitBackups /\ [][NextBackups]_vars

BackupsCompared == probe.fn = "compare_backups"
BackupsDiffer(d) ==
    NamedDjs(probe.arg.matrix_backups, d) # NamedDjs(probe.arg.cal_backups, d)

\* C21: with both backup maps supplied, every date on which the matrix backup
\* set and the calendar backup set differ is reported, and no other date,
\* whatever the outcome of the booking comparison
C21_BackupMismatchesAlwaysReported ==
    (BackupsCompared /\ probe.arg.has_backups) =>
        \A d \in ComparatorDates : d \in SeqDates(probe.out.backup_issues) <=> BackupsDiffer(d)

\* the report sections that list a date
SectionsOf(d) ==
    {c \in {"MissingFromMatrix", "MissingFromGigDb", "MissingFromCalendar", "DjMismatch"} :
        d \in SeqDates(CASE c = "MissingFromMatrix" -> probe.out.missing_from_matrix
                         [] c = "MissingFromGigDb" -> probe.out.missing_from_gig_db
                         [] c = "MissingFromCalendar" -> probe.out.missing_from_calendar
                         [] OTHER -> probe.out.dj_mismatches)}

\* the first matching rule of the classification order
FirstMatchingRule(d) ==
    LET gig == NamedDjs(probe.arg.gig_db, d)
        matrix == NamedDjs(probe.arg.avail_matrix, d)
        cal == NamedDjs(probe.arg.master_cal, d)
    IN IF gig # {} /\ matrix = {} THEN "MissingFromMatrix"
       ELSE IF matrix # {} /\ gig = {} THEN "MissingFromGigDb"
       ELSE IF gig # {} /\ cal = {} /\ matrix = gig THEN "MissingFromCalendar"
       ELSE "DjMismatch"

\* C22: every discrepant date is listed under exactly one category of the
\* report, the one of the first matching rule in the order MissingFromMatrix,
\* MissingFromGigDb, MissingFromCalendar, DjMismatch
C22_OneCategoryPerDate ==
    Compared =>
        \A d \in SeqDates(probe.out.issues) : SectionsOf(d) = {FirstMatchingRule(d)}

\* C23: for every DJ, cell value, bold flag, date and year, can_backup of the
\* write protocol agrees with the can_backup component of check_dj_availability
C23_CanBackupAgreesWithRuleEngine ==
    Judged => (probe.out.backup <=> probe.out.availability[2])

(***************************************************************************)
(* One row judged by calculate_spots_remaining and by analyze_availability *)
(***************************************************************************)
\* the cell values of the row, without the bold marker of the analyzer's input
RowValues(selected_data) == [c \in DOMAIN selected_data |-> PlainText(selected_data[c])]

ApplySpots ==
    /\ probe.fn = "input"
    /\ probe' = [fn |-> "spots", arg |-> probe.arg,
                 out |-> [spots_remaining |->
                              calculate_spots_remaining(RowValues(probe.arg.selected_data),
                                                        probe.arg.year, probe.arg.weekday),
                          analysis |->
                              analyze_availability(probe.arg.selected_data, probe.arg.weekday,
                                                   IntToStr(probe.arg.year))]]
    /\ UNCHANGED <<booking_date, row_exists, row, bold_cells, calendar, mgr, runs_started>>

NextSpots == ApplySpots

SpecSpots == InitAnalyze /\ [][NextSpots]_vars

\* C24: calculate_spots_remaining equals available_spots of analyze_availability
\* on the same row, date and year, for every row
C24_SpotsRemainingEqualsAvailableSpots ==
    probe.fn = "spots" => probe.out.spots_remaining = probe.out.analysis.available_spots

SeqMembers(names) == {names[i] : i \in 1..Len(names)}

\* the rule engine's verdict on the cell of a DJ column of the analysed row
RuleVerdict(dj) ==
    check_dj_availability(dj, PlainText(probe.arg.selected_data[dj]), probe.arg.weekday,
                          Contains(probe.arg.selected_data[dj], "(BOLD)"),
                          IntToStr(probe.arg.year))

NotCountedAsBooked(dj) ==
    Lower(PlainText(probe.arg.selected_data[dj])) \notin {"booked", "backup"}

\* C25: every DJ column of the year that is not counted as booked is judged by
\* the rule engine: a DJ with can_book is in available_for_booking and a DJ with
\* can_backup is in available_for_backup, Stephanie included
C25_EveryDjColumnJudged ==
    Analyzed =>
        \A dj \in DJs \cap DOMAIN probe.arg.selected_data :
            NotCountedAsBooked(dj) =>
                /\ RuleVerdict(dj)[1] => dj \in SeqMembers(probe.out.available_booking)
                /\ RuleVerdict(dj)[2] => dj \in SeqMembers(probe.out.available_backup)

(***************************************************************************)
(* BOOKED x N read at its four call sites                                  *)
(***************************************************************************)
\* cell texts "BOOKED x N": spellings of the words, paddings, and texts for N
BookedTimesTexts ==
    {[lead |-> lead, words |-> words, n_text |-> n_text] :
        lead \in {"", " "},
        words \in {"BOOKED x ", "BOOKED X ", "booked x ", "Booked x "},
        n_text \in {"2", "3", "1", "0", "-2", "+2", "2 ", "", "two", "2.5", "2x", "?"}}

InitParse ==
    /\ booking_date = [year |-> 2026, weekday |-> 5]
    /\ row_exists = TRUE
    /\ row = BlankRow(2026)
    /\ bold_cells = {}
    /\ calendar = <<>>
    /\ mgr = [r \in Runs |-> IdleRun]
    /\ runs_started = 0
    /\ probe \in [fn : {"input"}, arg : BookedTimesTexts, out : {""}]

\* the same cell text read by the analyzer's TBA count, count_booked_events,
\* increment_booked and increment_tba
ApplyParse ==
    /\ probe.fn = "input"
    /\ LET value == probe.arg.lead \o probe.arg.words \o probe.arg.n_text
       IN probe' = [fn |-> "parse", arg |-> probe.arg,
                    out |-> [tba_bookings |-> TbaBookingsOf("TBA", value),
                             count_booked_events |-> count_booked_events(value),
                             increment_booked |-> increment_booked(value),
                             increment_tba |-> increment_tba(value)]]
    /\ UNCHANGED <<booking_date, row_exists, row, bold_cells, calendar, mgr, runs_started>>

NextParse == ApplyParse

SpecParse == InitParse /\ [][NextParse]_vars

NotPositiveInteger(n_text) == ~ParseInt(n_text).ok \/ ParseInt(n_text).val <= 0

\* C26: at every call site a BOOKED x N whose N is not a positive integer counts
\* as one booking: the analyzer's TBA count and count_booked_events give 1, and
\* increment_booked and increment_tba give BOOKED x 2
C26_UnparsedCountIsOne ==
    (probe.fn = "parse" /\ NotPositiveInteger(probe.arg.n_text)) =>
        /\ probe.out.tba_bookings = 1
        /\ probe.out.count_booked_events = 1
        /\ probe.out.increment_booked = "BOOKED x 2"
        /\ probe.out.increment_tba = "BOOKED x 2"

(***************************************************************************)
(* Nearby bookings of a DJ (dj_core.get_nearby_bookings_for_dj)            *)
(***************************************************************************)
\* A date of 2026 is its day of the year, 1..365; 1 January 2026 is a Thursday.
NEARBY_OFFSETS == <<-3, -2, -1, 1, 2, 3>>

\* dates_to_check: the offsets whose date lies in the queried year
dates_to_check(day) ==
    SelectSeq(NEARBY_OFFSETS, LAMBDA offset : day + offset >= 1 /\ day + offset <= 365)

\* f"{calendar.day_name[check_date.weekday()][:3]} {check_date.month}/{check_date.day}"
\* for the days of January, February and December
FormatNearby(day) ==
    LET day_name == <<"Mon", "Tue", "Wed", "Thu", "Fri", "Sat", "Sun">>[((day + 2) % 7) + 1]
        month == IF day <= 31 THEN 1 ELSE IF day <= 59 THEN 2 ELSE 12
        day_of_month == IF day <= 31 THEN day ELSE IF day <= 59 THEN day - 31 ELSE day - 334
    IN day_name \o " " \o IntToStr(month) \o "/" \o IntToStr(day_of_month)

\* variant: the results stay in completion order
SortByOffset_as_completed(results) == results

\* results.sort(key=lambda x: x[0])
RECURSIVE SortByOffset(_)
SortByOffset(results) ==
    IF results = <<>> THEN <<>>
    ELSE LET i == CHOOSE k \in 1..Len(results) :
                     \A j \in 1..Len(results) :
                         \/ results[k][1] < results[j][1]
                         \/ (results[k][1] = results[j][1] /\ k <= j)
             rest == [j \in 1..(Len(results) - 1) |->
                         IF j < i THEN results[j] ELSE results[j + 1]]
         IN <<results[i]>> \o SortByOffset(rest)

\* the call has prepared dates_to_check and submitted one lookup per date
InitNearby ==
    /\ booking_date = [year |-> 2026, weekday |-> 5]
    /\ row_exists = TRUE
    /\ row = BlankRow(2026)
    /\ bold_cells = {}
    /\ calendar = <<>>
    /\ mgr = [r \in Runs |-> IdleRun]
    /\ runs_started = 0
    /\ \E day \in {1, 2, 3, 4, 30, 31, 362, 364, 365} :
       \E booked \in SUBSET {day - 3, day - 1, day + 1, day + 2} :
          probe = [fn |-> "nearby_running",
                   arg |-> [day |-> day, booked |-> booked],
                   pending |-> {dates_to_check(day)[i] : i \in 1..Len(dates_to_check(day))},
                   results |-> <<>>,
                   out |-> <<>>]

\* as_completed yields one more future: check_date_for_dj has answered for it
CompleteLookup ==
    /\ probe.fn = "nearby_running"
    /\ \E offset \in probe.pending :
          probe' = [probe EXCEPT
                       !.pending = @ \ {offset},
                       !.results = IF probe.arg.day + offset \in probe.arg.booked
                                   THEN Append(@, <<offset, FormatNearby(probe.arg.day + offset)>>)
                                   ELSE @]
    /\ UNCHANGED <<booking_date, row_exists, row, bold_cells, calendar, mgr, runs_started>>

\* every future has completed: sort by offset and return the formatted dates
ReturnNearby ==
    /\ probe.fn = "nearby_running"
    /\ probe.pending = {}
    /\ probe' = [probe EXCEPT
                    !.fn = "nearby_done",
                    !.out = LET sorted == SortByOffset(probe.results)
                            IN [i \in 1..Len(sorted) |-> sorted[i][2]]]
    /\ UNCHANGED <<booking_date, row_exists, row, bold_cells, calendar, mgr, runs_started>>

NextNearby == CompleteLookup \/ ReturnNearby

SpecNearby == InitNearby /\ [][NextNearby]_vars

\* the offsets whose date is in the year and booked
BookedOffsets ==
    {o \in {-3, -2, -1, 1, 2, 3} :
        /\ probe.arg.day + o >= 1 /\ probe.arg.day + o <= 365
        /\ probe.arg.day + o \in probe.arg.booked}

OffsetOfEntry(i) == CHOOSE o \in BookedOffsets : FormatNearby(probe.arg.day + o) = probe.out[i]

\* C27: whatever the completion order of the lookups, the returned list holds
\* the booked dates at offsets -3..-1 and 1..3 inside the year, each once, in
\* ascending offset order
C27_NearbyInOffsetOrder ==
    probe.fn = "nearby_done" =>
        /\ Len(probe.out) = Cardinality(BookedOffsets)
        /\ \A i \in 1..Len(probe.out) :
              \E o \in BookedOffsets : FormatNearby(probe.arg.day + o) = probe.out[i]
        /\ \A i, j \in 1..Len(probe.out) : i < j => OffsetOfEntry(i) < OffsetOfEntry(j)

\* the lookups completed out of order and a date outside the year was left out
C27_Witness ==
    /\ probe.fn = "nearby_done"
    /\ probe.arg.day = 31
    /\ Len(probe.results) = 3
    /\ probe.results[1][1] > probe.results[2][1]
    /\ probe.out = <<"Wed 1/28", "Sun 2/1", "Mon 2/2">>

(***************************************************************************)
(* The validation's two counts, before and after a run                     *)
(***************************************************************************)
\* for every DJ the bookings the matrix cell records are as many as the
\* calendar events whose title carries the DJ's initials
CountsAgree(exists, cells, titles) ==
    \A dj \in DJs :
        count_booked_events(IF exists THEN RowGet(cells, dj) ELSE "")
            = Len(TitlesWith(titles, "[" \o get_dj_initials(dj) \o "]"))

\* C28: a serialized run that starts where the matrix count and the calendar
\* count are equal for every DJ of the date and reaches Done leaves the two
\* counts equal again for every DJ
C28_DoneRunsKeepCountsEqual ==
    \A r \in SerialRuns :
        (/\ mgr[r].pc = "done"
         /\ CountsAgree(mgr[r].start_exists, mgr[r].start_row, mgr[r].start_calendar))
            => CountsAgree(row_exists, row, calendar)

(***************************************************************************)
(* The values the write protocol leaves in a DJ cell, judged               *)
(***************************************************************************)
\* increment_booked gives BOOKED and BOOKED x N, the backup write BACKUP
ProtocolValues == {"BOOKED", "BOOKED x 2", "BACKUP"}

\* the analysis of a row that holds the judged cell in the DJ's column
AnalysisOfJudgedCell ==
    analyze_availability(
        (probe.arg.dj :> (probe.arg.value \o (IF probe.arg.is_bold THEN " (BOLD)" ELSE ""))),
        probe.arg.weekday, IntToStr(probe.arg.year))

\* C29: BOOKED, BOOKED x N (N >= 2) and BACKUP in a DJ cell give (false, false)
\* from check_dj_availability for every DJ, date and year, and the analyzer
\* lists the DJ neither as available for booking nor as available for backup
C29_WrittenValuesNeverOffered ==
    (Judged /\ probe.arg.value \in ProtocolValues) =>
        /\ probe.out.availability = <<FALSE, FALSE>>
        /\ probe.arg.dj \notin SeqMembers(AnalysisOfJudgedCell.available_booking)
        /\ probe.arg.dj \notin SeqMembers(AnalysisOfJudgedCell.available_backup)

\* C30: check_dj_availability never returns (true, false): for every DJ, cell
\* value, date, bold flag and year can_book implies can_backup, and the DJs the
\* analyzer lists as available for booking are all listed as available for
\* backup
C30_CanBookImpliesCanBackup ==
    Judged =>
        /\ probe.out.availability[1] => probe.out.availability[2]
        /\ SeqMembers(AnalysisOfJudgedCell.available_booking)
              \subseteq SeqMembers(AnalysisOfJudgedCell.available_backup)

\* a weekend Ok cell of Felipe in a gated year is bookable and a backup, and
\* the analyzer lists Felipe in both lists
C30_Witness ==
    /\ Judged
    /\ probe.arg.dj = "Felipe" /\ probe.arg.value = "OK" /\ probe.arg.year = 2026
    /\ probe.out.availability = <<TRUE, TRUE>>
    /\ AnalysisOfJudgedCell.available_booking = <<"Felipe">>
    /\ AnalysisOfJudgedCell.available_backup = <<"Felipe">>

====
